---- MODULE Spec2Model ----
(***************************************************************************)
(* mobileconf: extraction of Wi-Fi and TLS-certificate payload records    *)
(* from the property list carried by a .mobileconfig container            *)
(* (src/src/main.rs).  The model starts where main has recovered the      *)
(* property list from the PKCS#7 envelope (line 196) and follows main to  *)
(* its last println (line 217).                                           *)
(***************************************************************************)
EXTENDS Integers, Sequences, FiniteSets, TLC

(***************************************************************************)
(* Bounds of the model.                                                    *)
(***************************************************************************)
\* longest payload array of a multi-entry document
MaxEntries == 3
\* longest PayloadCertificateAnchorUUID / TLSTrustedServerNames array
MaxArr == 2
\* number of fields in which a single-entry document's entry departs from
\* the well-formed entry BaseEntry
MaxEdits == 2

(***************************************************************************)
(* plist::Value.  A node is a record tagged by its kind; a dictionary is a *)
(* function from the keys it holds to nodes.                               *)
(***************************************************************************)
String(s) == [kind |-> "String", str |-> s]

Integer(n) == [kind |-> "Integer", int |-> n]

Data(b) == [kind |-> "Data", bytes |-> b]

Array(a) == [kind |-> "Array", arr |-> a]

Dictionary(d) == [kind |-> "Dictionary", dict |-> d]

(***************************************************************************)
(* Option and Result.                                                      *)
(***************************************************************************)
None == [some |-> FALSE]

Some(v) == [some |-> TRUE, val |-> v]

Ok(v) == [tag |-> "Ok", val |-> v]

Err(e) == [tag |-> "Err", err |-> e]

\* a panic raised by Option::expect(msg)
Panic(msg) == [tag |-> "Panic", msg |-> msg]

IsOk(r) == r.tag = "Ok"

IsErr(r) == r.tag = "Err"

\* Option::ok_or
ok_or(opt, e) == IF opt.some THEN Ok(opt.val) ELSE Err(e)

\* format!("<prefix>{}", key): an error message is the sequence of its parts
Format(prefix, key) == <<prefix, key>>

\* a &str or String literal used as an error message
Msg(s) == <<s>>

(***************************************************************************)
(* Typed accessors of plist::Value and Dictionary::get.                    *)
(***************************************************************************)
as_dictionary(v) == IF v.kind = "Dictionary" THEN Some(v.dict) ELSE None

as_array(v) == IF v.kind = "Array" THEN Some(v.arr) ELSE None

as_string(v) == IF v.kind = "String" THEN Some(v.str) ELSE None

as_data(v) == IF v.kind = "Data" THEN Some(v.bytes) ELSE None

Get(dict, key) == IF key \in DOMAIN dict THEN Some(dict[key]) ELSE None

(***************************************************************************)
(* get_string, lines 52-58.                                                *)
(***************************************************************************)
get_string_swapped(dict, key) ==
    LET v == Get(dict, key)
    IN  IF ~v.some THEN Err(Format("key not a string: ", key))
        ELSE ok_or(as_string(v.val), Format("missing key: ", key))

get_string(dict, key) ==
    LET v == Get(dict, key)
    IN  IF ~v.some THEN Err(Format("missing key: ", key))
        ELSE ok_or(as_string(v.val), Format("key not a string: ", key))

(***************************************************************************)
(* .iter().filter_map(Value::as_string).map(str::to_string).collect(),     *)
(* lines 83-86 and 93-96.                                                  *)
(***************************************************************************)
RECURSIVE FilterStringsUntil(_)
FilterStringsUntil(arr) ==
    IF arr = <<>> \/ ~as_string(Head(arr)).some THEN <<>>
    ELSE <<as_string(Head(arr)).val>> \o FilterStringsUntil(Tail(arr))

RECURSIVE FilterStrings(_)
FilterStrings(arr) ==
    IF arr = <<>> THEN <<>>
    ELSE LET s == as_string(Head(arr))
         IN  (IF s.some THEN <<s.val>> ELSE <<>>) \o FilterStrings(Tail(arr))

(***************************************************************************)
(* MobileconfWifi::parse, lines 63-118.                                    *)
(***************************************************************************)
\* lines 66-70: TRUE when the entry is rejected as "Not a wifi"
WifiTypeMismatchStrict(dict) ==
    LET typ == get_string(dict, "PayloadType")
    IN  ~(IsOk(typ) /\ typ.val = "com.apple.wifi.managed")

WifiTypeMismatch(dict) ==
    LET typ == get_string(dict, "PayloadType")
    IN  IsOk(typ) /\ typ.val # "com.apple.wifi.managed"

\* lines 72-76
EAPClientConfiguration(dict) ==
    LET v == ok_or(Get(dict, "EAPClientConfiguration"), Msg("no EAPClientConfiguration"))
    IN  IF IsErr(v) THEN v
        ELSE ok_or(as_dictionary(v.val), Msg("EAPClientConfiguration not a dict"))

\* lines 78-86
PayloadCertificateAnchorUUID(eap) ==
    LET v == ok_or(Get(eap, "PayloadCertificateAnchorUUID"), Msg("no PayloadCertificateAnchorUUID"))
    IN  IF IsErr(v) THEN v
        ELSE LET a == ok_or(as_array(v.val), Msg("expected array: PayloadCertificateAnchorUUID"))
             IN  IF IsErr(a) THEN a ELSE Ok(FilterStrings(a.val))

\* lines 88-99
TLSTrustedServerNamesRequired(eap) ==
    LET tls_servers == Get(eap, "TLSTrustedServerNames")
    IN  IF tls_servers.some
        THEN LET a == ok_or(as_array(tls_servers.val), Msg("expected array: TLSTrustedServerNames"))
             IN  IF IsErr(a) THEN a ELSE Ok(FilterStrings(a.val))
        ELSE Err(Msg("no TLSTrustedServerNames"))

TLSTrustedServerNames(eap) ==
    LET tls_servers == Get(eap, "TLSTrustedServerNames")
    IN  IF tls_servers.some
        THEN LET a == ok_or(as_array(tls_servers.val), Msg("expected array: TLSTrustedServerNames"))
             IN  IF IsErr(a) THEN a ELSE Ok(FilterStrings(a.val))
        ELSE Ok(<<>>)

\* lines 72-117, the body after the type check
WifiFields(dict) ==
    LET eap == EAPClientConfiguration(dict)
    IN  IF IsErr(eap) THEN eap ELSE
    LET anchors == PayloadCertificateAnchorUUID(eap.val)
    IN  IF IsErr(anchors) THEN anchors ELSE
    LET names == TLSTrustedServerNames(eap.val)
    IN  IF IsErr(names) THEN names ELSE
    LET UserName == get_string(eap.val, "UserName")
    IN  IF IsErr(UserName) THEN UserName ELSE
    LET UserPassword == get_string(eap.val, "UserPassword")
    IN  IF IsErr(UserPassword) THEN UserPassword ELSE
    LET SSID == get_string(dict, "SSID_STR")
    IN  IF IsErr(SSID) THEN SSID ELSE
    LET TTLSInnerAuthentication == get_string(eap.val, "TTLSInnerAuthentication")
    IN  IF IsErr(TTLSInnerAuthentication) THEN TTLSInnerAuthentication ELSE
        Ok([PayloadCertificateAnchorUUID |-> anchors.val,
            TLSTrustedServerNames |-> names.val,
            UserName |-> UserName.val,
            UserPassword |-> UserPassword.val,
            SSID |-> SSID.val,
            TTLSInnerAuthentication |-> TTLSInnerAuthentication.val])

MobileconfWifi_parse(v) ==
    LET d == as_dictionary(v)
    IN  IF ~d.some THEN Panic("")
        ELSE IF WifiTypeMismatch(d.val) THEN Err(Msg("Not a wifi"))
        ELSE WifiFields(d.val)

(***************************************************************************)
(* base64::encode with the standard alphabet and padding, line 150.        *)
(***************************************************************************)
Alphabet ==
    <<"A","B","C","D","E","F","G","H","I","J","K","L","M","N","O","P",
      "Q","R","S","T","U","V","W","X","Y","Z","a","b","c","d","e","f",
      "g","h","i","j","k","l","m","n","o","p","q","r","s","t","u","v",
      "w","x","y","z","0","1","2","3","4","5","6","7","8","9","+","/">>

Sextet(n) == Alphabet[(n % 64) + 1]

RECURSIVE base64_encode(_)
base64_encode(data) ==
    IF Len(data) = 0 THEN <<>>
    ELSE IF Len(data) = 1 THEN
        <<Sextet(data[1] \div 4), Sextet((data[1] % 4) * 16), "=", "=">>
    ELSE IF Len(data) = 2 THEN
        <<Sextet(data[1] \div 4),
          Sextet((data[1] % 4) * 16 + data[2] \div 16),
          Sextet((data[2] % 16) * 4), "=">>
    ELSE
        <<Sextet(data[1] \div 4),
          Sextet((data[1] % 4) * 16 + data[2] \div 16),
          Sextet((data[2] % 16) * 4 + data[3] \div 64),
          Sextet(data[3] % 64)>>
        \o base64_encode(SubSeq(data, 4, Len(data)))

(***************************************************************************)
(* MobileconfTLSCert::parse, lines 131-156.                                *)
(***************************************************************************)
\* lines 134-140: TRUE when the entry is rejected as "Not a TLS certificate"
TlsTypeMismatchNever(dict) == FALSE

TlsTypeMismatch(dict) ==
    LET typ == get_string(dict, "PayloadType")
    IN  IsOk(typ) /\ ~(typ.val = "com.apple.security.pem"
                       \/ typ.val = "com.apple.security.root")

\* lines 142-155
TlsFields(dict) ==
    LET PayloadUUID == get_string(dict, "PayloadUUID")
    IN  IF IsErr(PayloadUUID) THEN PayloadUUID ELSE
    LET v == ok_or(Get(dict, "PayloadContent"), Msg("missing key: PayloadContent"))
    IN  IF IsErr(v) THEN v ELSE
    LET data == ok_or(as_data(v.val), Msg("expected data"))
    IN  IF IsErr(data) THEN data ELSE
        Ok([PayloadUUID |-> PayloadUUID.val,
            PayloadContent |-> base64_encode(data.val)])

MobileconfTLSCert_parse(v) ==
    LET d == as_dictionary(v)
    IN  IF ~d.some THEN Panic("")
        ELSE IF TlsTypeMismatch(d.val) THEN Err(Msg("Not a TLS certificate"))
        ELSE TlsFields(d.val)

(***************************************************************************)
(* partition_results, lines 159-172: one turn of the for_each closure on   *)
(* outcome x, giving the new (oks, errs).                                  *)
(***************************************************************************)
PartitionPushFront(x, oks, errs) ==
    IF IsOk(x) THEN <<<<x.val>> \o oks, errs>>
    ELSE <<oks, <<x.err>> \o errs>>

PartitionPush(x, oks, errs) ==
    IF IsOk(x) THEN <<Append(oks, x.val), errs>>
    ELSE <<oks, Append(errs, x.err)>>

(***************************************************************************)
(* main, lines 196-202: the payload array, or None when the root is not a  *)
(* dictionary or "PayloadContent" is missing or not an array.              *)
(***************************************************************************)
PayloadContentsOrEmpty(root) ==
    LET dict == as_dictionary(root)
    IN  IF ~dict.some THEN Some(<<>>)
        ELSE LET v == Get(dict.val, "PayloadContent")
             IN  IF ~v.some THEN Some(<<>>)
                 ELSE IF as_array(v.val).some THEN as_array(v.val) ELSE Some(<<>>)

PayloadContents(root) ==
    LET dict == as_dictionary(root)
    IN  IF ~dict.some THEN None
        ELSE LET v == Get(dict.val, "PayloadContent")
             IN  IF ~v.some THEN None ELSE as_array(v.val)

(***************************************************************************)
(* Input documents.                                                        *)
(***************************************************************************)
\* a field an entry does not carry
Absent == [kind |-> "Absent"]

\* the EAPClientConfiguration dictionary assembled from the entry's EAP fields
FromFields == [kind |-> "FromFields"]

MkDict(r) == [k \in {k \in DOMAIN r : r[k].kind # "Absent"} |-> r[k]]

\* the payload entry described by the flat record c
Build(c) ==
    Dictionary(MkDict(
        [PayloadType |-> c.PayloadType,
         EAPClientConfiguration |->
            IF c.EAPClientConfiguration.kind = "FromFields"
            THEN Dictionary(MkDict(
                    [PayloadCertificateAnchorUUID |-> c.PayloadCertificateAnchorUUID,
                     TLSTrustedServerNames |-> c.TLSTrustedServerNames,
                     UserName |-> c.UserName,
                     UserPassword |-> c.UserPassword,
                     TTLSInnerAuthentication |-> c.TTLSInnerAuthentication]))
            ELSE c.EAPClientConfiguration,
         SSID_STR |-> c.SSID_STR,
         PayloadUUID |-> c.PayloadUUID,
         PayloadContent |-> c.PayloadContent]))

SeqsUpTo(S, n) == UNION {[1..k -> S] : k \in 0..n}

Elems == {String("a"), String("b"), Integer(7)}

ArrayOptions == {Absent, String("a")} \cup {Array(a) : a \in SeqsUpTo(Elems, MaxArr)}

StringOptions(s) == {Absent, String(s), Integer(7)}

\* what each field of an entry may be
Options ==
    [PayloadType |-> {Absent, Integer(7),
                      String("com.apple.wifi.managed"),
                      String("com.apple.security.pem"),
                      String("com.apple.security.root"),
                      String("com.apple.vpn.managed")},
     EAPClientConfiguration |-> {Absent, String("eap"), FromFields},
     PayloadCertificateAnchorUUID |-> ArrayOptions,
     TLSTrustedServerNames |-> ArrayOptions,
     UserName |-> StringOptions("bob"),
     UserPassword |-> StringOptions("pw"),
     TTLSInnerAuthentication |-> StringOptions("PAP"),
     SSID_STR |-> StringOptions("MySSID"),
     PayloadUUID |-> StringOptions("uuid-1"),
     PayloadContent |-> {Absent, String("pem"), Data(<<77>>), Data(<<77, 97, 110, 33>>)}]

\* an entry both parsers accept
BaseEntry ==
    [PayloadType |-> Absent,
     EAPClientConfiguration |-> FromFields,
     PayloadCertificateAnchorUUID |-> Array(<<String("U1")>>),
     TLSTrustedServerNames |-> Array(<<String("radius.example")>>),
     UserName |-> String("bob"),
     UserPassword |-> String("pw"),
     TTLSInnerAuthentication |-> String("PAP"),
     SSID_STR |-> String("MySSID"),
     PayloadUUID |-> String("uuid-1"),
     PayloadContent |-> Data(<<77, 97, 110>>)]

Fields == DOMAIN Options

\* the sets of at most MaxEdits fields
EditSets == {F \in SUBSET Fields : Cardinality(F) <= MaxEdits}

OptionsAt(F, f) == IF f \in F THEN Options[f] ELSE {BaseEntry[f]}

\* the entries that depart from BaseEntry in the fields F only
EditedAt(F) ==
    [PayloadType : OptionsAt(F, "PayloadType"),
     EAPClientConfiguration : OptionsAt(F, "EAPClientConfiguration"),
     PayloadCertificateAnchorUUID : OptionsAt(F, "PayloadCertificateAnchorUUID"),
     TLSTrustedServerNames : OptionsAt(F, "TLSTrustedServerNames"),
     UserName : OptionsAt(F, "UserName"),
     UserPassword : OptionsAt(F, "UserPassword"),
     TTLSInnerAuthentication : OptionsAt(F, "TTLSInnerAuthentication"),
     SSID_STR : OptionsAt(F, "SSID_STR"),
     PayloadUUID : OptionsAt(F, "PayloadUUID"),
     PayloadContent : OptionsAt(F, "PayloadContent")]

WifiHome ==
    Build([BaseEntry EXCEPT !.PayloadType = String("com.apple.wifi.managed"),
                            !.SSID_STR = String("home"),
                            !.TLSTrustedServerNames = Absent,
                            !.PayloadContent = Absent])

WifiWork ==
    Build([BaseEntry EXCEPT !.SSID_STR = String("work"),
                            !.PayloadCertificateAnchorUUID =
                                Array(<<Integer(7), String("U2"), String("U1")>>),
                            !.PayloadContent = Absent])

WifiNoUser ==
    Build([BaseEntry EXCEPT !.PayloadType = String("com.apple.wifi.managed"),
                            !.UserName = Absent,
                            !.PayloadContent = Absent])

CertPem ==
    Build([BaseEntry EXCEPT !.PayloadType = String("com.apple.security.pem"),
                            !.EAPClientConfiguration = Absent,
                            !.SSID_STR = Absent])

Vpn ==
    Build([BaseEntry EXCEPT !.PayloadType = String("com.apple.vpn.managed"),
                            !.EAPClientConfiguration = Absent,
                            !.SSID_STR = Absent,
                            !.PayloadContent = Absent])

\* an array element that is not a dictionary
Stray == String("stray")

RunEntries == {WifiHome, WifiWork, WifiNoUser, CertPem, Vpn, Stray}

Profile(content) ==
    Dictionary([k \in {"PayloadIdentifier", "PayloadContent"} |->
                  IF k = "PayloadContent" THEN content ELSE String("example.profile")])

\* documents of several entries, and documents of an unexpected shape
Documents ==
    {Profile(Array(es)) : es \in SeqsUpTo(RunEntries, MaxEntries)}
    \cup {Profile(String("none")), Profile(Data(<<77>>)), Profile(WifiHome),
          Dictionary([k \in {"PayloadIdentifier"} |-> String("example.profile")]),
          String("root"), Array(<<WifiHome>>)}

\* documents of one entry, the entry within MaxEdits fields of BaseEntry
SingleEntryDocument(doc) ==
    \E F \in EditSets : \E c \in EditedAt(F) : doc = Profile(Array(<<Build(c)>>))

(***************************************************************************)
(* main from line 196 on.                                                  *)
(***************************************************************************)
VARIABLES
    plist,      \* the parsed property list (line 196)
    pc,         \* "start", "wifi", "tls", "done" or "panic"
    contents,   \* the payload array (line 199)
    i,          \* position of contents.iter() in the running pass
    x,          \* the outcome the for_each closure was last given (line 166)
    oks,        \* partition_results' oks (line 163)
    errs,       \* partition_results' errs (line 164)
    wifis,      \* line 204
    certs,      \* line 210
    out,        \* lines printed on standard output
    calls       \* the parser calls made so far, <<parser, index>>

vars == <<plist, pc, contents, i, x, oks, errs, wifis, certs, out, calls>>

NoOutcome == [tag |-> "None"]

Line(text, val) == [text |-> text, val |-> val]

Init ==
    /\ (plist \in Documents \/ SingleEntryDocument(plist))
    /\ pc = "start"
    /\ contents = <<>>
    /\ i = 1
    /\ x = NoOutcome
    /\ oks = <<>>
    /\ errs = <<>>
    /\ wifis = <<>>
    /\ certs = <<>>
    /\ out = <<>>
    /\ calls = <<>>

\* lines 197-202: .expect("array of contents")
Contents ==
    /\ pc = "start"
    /\ LET c == PayloadContents(plist)
       IN  IF c.some
           THEN pc' = "wifi" /\ contents' = c.val
           ELSE pc' = "panic" /\ contents' = contents
    /\ UNCHANGED <<plist, i, x, oks, errs, wifis, certs, out, calls>>

\* one turn of a pass: the lazy map calls the parser on the next entry (lines
\* 206, 212) and for_each's closure files the outcome (lines 166-169)
PassStep(parser, r) ==
    /\ x' = r
    /\ calls' = Append(calls, <<parser, i>>)
    /\ IF r.tag = "Panic"
       THEN pc' = "panic" /\ UNCHANGED <<i, oks, errs>>
       ELSE /\ pc' = pc
            /\ i' = i + 1
            /\ oks' = PartitionPush(r, oks, errs)[1]
            /\ errs' = PartitionPush(r, oks, errs)[2]
    /\ UNCHANGED <<plist, contents, wifis, certs, out>>

\* lines 204-207
WifiParseNext ==
    /\ pc = "wifi"
    /\ i <= Len(contents)
    /\ PassStep("wifi", MobileconfWifi_parse(contents[i]))

\* lines 204 and 208: the first pass' lists are bound and its errors printed
WifiDone ==
    /\ pc = "wifi"
    /\ i > Len(contents)
    /\ wifis' = oks
    /\ out' = Append(out, Line("Errs: ", errs))
    /\ pc' = "tls"
    /\ i' = 1
    /\ oks' = <<>>
    /\ errs' = <<>>
    /\ UNCHANGED <<plist, contents, x, certs, calls>>

\* the TLS pass skipping the entries the Wi-Fi parser accepted
TlsParseNextUnlessWifi ==
    /\ pc = "tls"
    /\ i <= Len(contents)
    /\ IF IsOk(MobileconfWifi_parse(contents[i]))
       THEN i' = i + 1 /\ UNCHANGED <<plist, pc, contents, x, oks, errs, wifis, certs, out, calls>>
       ELSE PassStep("tls", MobileconfTLSCert_parse(contents[i]))

\* lines 210-213
TlsParseNext ==
    /\ pc = "tls"
    /\ i <= Len(contents)
    /\ PassStep("tls", MobileconfTLSCert_parse(contents[i]))

\* lines 210, 214, 216 and 217
TlsDone ==
    /\ pc = "tls"
    /\ i > Len(contents)
    /\ certs' = oks
    /\ out' = out \o <<Line("Errs: ", errs),
                       Line("Found wifis: ", wifis),
                       Line("Found certs: ", oks)>>
    /\ pc' = "done"
    /\ UNCHANGED <<plist, contents, i, x, oks, errs, wifis, calls>>

Next ==
    \/ Contents
    \/ WifiParseNext
    \/ WifiDone
    \/ TlsParseNext
    \/ TlsDone

Spec == Init /\ [][Next]_vars

(***************************************************************************)
(* Vocabulary of the properties, stated on the document tree itself.        *)
(***************************************************************************)
Has(d, k) == k \in DOMAIN d

HasKind(d, k, kind) == Has(d, k) /\ d[k].kind = kind

\* the string elements of an array node's elements, in order
StringsOf(arr) ==
    LET sel == SelectSeq(arr, LAMBDA n : n.kind = "String")
    IN  [j \in 1..Len(sel) |-> sel[j].str]

EapOf(e) == e.dict["EAPClientConfiguration"].dict

RequiredWifiFields ==
    {"EAPClientConfiguration", "PayloadCertificateAnchorUUID", "UserName",
     "UserPassword", "SSID_STR", "TTLSInnerAuthentication"}

EapStringFields == {"UserName", "UserPassword", "TTLSInnerAuthentication"}

EapOK(e) == HasKind(e.dict, "EAPClientConfiguration", "Dictionary")

\* required field F of dictionary entry e is present with the kind the Wi-Fi
\* schema asks for (an EAP field needs the EAP dictionary to be there)
FieldOK(e, F) ==
    CASE F = "EAPClientConfiguration" -> EapOK(e)
      [] F = "SSID_STR" -> HasKind(e.dict, F, "String")
      [] F = "PayloadCertificateAnchorUUID" -> EapOK(e) /\ HasKind(EapOf(e), F, "Array")
      [] OTHER -> EapOK(e) /\ HasKind(EapOf(e), F, "String")

\* the optional TLSTrustedServerNames is an array when it is there
NamesOK(e) ==
    EapOK(e) =>
        (Has(EapOf(e), "TLSTrustedServerNames")
            => HasKind(EapOf(e), "TLSTrustedServerNames", "Array"))

\* dictionary entry e satisfies the Wi-Fi schema, PayloadType left aside
WifiSchema(e) ==
    /\ e.kind = "Dictionary"
    /\ \A F \in RequiredWifiFields : FieldOK(e, F)
    /\ NamesOK(e)

\* PayloadType is absent or the Wi-Fi type string
WifiTypeAdmits(e) ==
    ~Has(e.dict, "PayloadType") \/ e.dict["PayloadType"] = String("com.apple.wifi.managed")

\* the record the Wi-Fi schema reads off entry e
WifiRecordOf(e) ==
    [PayloadCertificateAnchorUUID |-> StringsOf(EapOf(e)["PayloadCertificateAnchorUUID"].arr),
     TLSTrustedServerNames |->
        IF Has(EapOf(e), "TLSTrustedServerNames")
        THEN StringsOf(EapOf(e)["TLSTrustedServerNames"].arr) ELSE <<>>,
     UserName |-> EapOf(e)["UserName"].str,
     UserPassword |-> EapOf(e)["UserPassword"].str,
     SSID |-> e.dict["SSID_STR"].str,
     TTLSInnerAuthentication |-> EapOf(e)["TTLSInnerAuthentication"].str]

\* entry e is otherwise a valid Wi-Fi entry and lacks only required field F
LacksOnly(e, F) ==
    /\ e.kind = "Dictionary"
    /\ WifiTypeAdmits(e)
    /\ IF F \in {"EAPClientConfiguration", "SSID_STR"}
       THEN ~Has(e.dict, F)
       ELSE EapOK(e) /\ ~Has(EapOf(e), F)
    /\ \A G \in RequiredWifiFields \ {F} :
          (F = "EAPClientConfiguration" /\ G # "SSID_STR") \/ FieldOK(e, G)
    /\ NamesOK(e)

\* the error classes of the two parsers' messages
NotApplicable(parser) ==
    IF parser = "wifi" THEN <<"Not a wifi">> ELSE <<"Not a TLS certificate">>

MissingField(F) ==
    IF F \in {"EAPClientConfiguration", "PayloadCertificateAnchorUUID"}
    THEN IF F = "EAPClientConfiguration"
         THEN <<"no EAPClientConfiguration">>
         ELSE <<"no PayloadCertificateAnchorUUID">>
    ELSE <<"missing key: ", F>>

AcceptedTypes(parser) ==
    IF parser = "wifi" THEN {"com.apple.wifi.managed"}
    ELSE {"com.apple.security.pem", "com.apple.security.root"}

\* the root has the expected shape
WellShaped ==
    /\ plist.kind = "Dictionary"
    /\ HasKind(plist.dict, "PayloadContent", "Array")

Entries == plist.dict["PayloadContent"].arr

\* x is the outcome of `parser` on LastEntry
Ran(parser) == calls # <<>> /\ calls[Len(calls)][1] = parser

LastEntry == contents[calls[Len(calls)][2]]

Count(seq, v) == Cardinality({j \in 1..Len(seq) : seq[j] = v})

IsWifiEntry(e) == e.kind = "Dictionary" /\ WifiTypeAdmits(e) /\ WifiSchema(e)

IsUnrelated(e) ==
    /\ e.kind = "Dictionary"
    /\ HasKind(e.dict, "PayloadType", "String")
    /\ e.dict["PayloadType"].str \notin AcceptedTypes("wifi") \cup AcceptedTypes("tls")

\* every entry matches the Wi-Fi schema or is a dictionary of an unrelated type
MixedDocument == WellShaped /\ \A j \in 1..Len(Entries) : IsWifiEntry(Entries[j]) \/ IsUnrelated(Entries[j])

WifiEntries == SelectSeq(Entries, IsWifiEntry)

UnrelatedEntries == SelectSeq(Entries, IsUnrelated)

TypedWifiEntries == SelectSeq(WifiEntries, LAMBDA e : Has(e.dict, "PayloadType"))

\* the errors the Wi-Fi pass and the TLS pass printed
WifiErrs == out[1].val

TlsErrs == out[2].val

C2_NoEntryAbortsTheRun == WellShaped => pc # "panic"

C4_MismatchIsNotApplicable ==
    \A parser \in {"wifi", "tls"} :
        (/\ Ran(parser)
         /\ LastEntry.kind = "Dictionary"
         /\ Has(LastEntry.dict, "PayloadType")
         /\ LastEntry.dict["PayloadType"] \notin {String(s) : s \in AcceptedTypes(parser)})
        => x = Err(NotApplicable(parser))

\* the part of C4 the code keeps: a string discriminator that mismatches
C4_StringMismatchIsNotApplicable ==
    \A parser \in {"wifi", "tls"} :
        (/\ Ran(parser)
         /\ LastEntry.kind = "Dictionary"
         /\ HasKind(LastEntry.dict, "PayloadType", "String")
         /\ LastEntry.dict["PayloadType"].str \notin AcceptedTypes(parser))
        => x = Err(NotApplicable(parser))

(***************************************************************************)
(* C5: the Wi-Fi parser turns a dictionary entry without "PayloadType"     *)
(* whose fields satisfy the Wi-Fi schema into the Wi-Fi record carrying    *)
(* those field values.                                                     *)
(***************************************************************************)
C5_PermissiveFallback ==
    (/\ Ran("wifi")
     /\ LastEntry.kind = "Dictionary"
     /\ ~Has(LastEntry.dict, "PayloadType")
     /\ WifiSchema(LastEntry))
    => x = Ok(WifiRecordOf(LastEntry))

C5_Witness ==
    /\ Ran("wifi")
    /\ LastEntry.kind = "Dictionary"
    /\ ~Has(LastEntry.dict, "PayloadType")
    /\ WifiSchema(LastEntry)
    /\ IsOk(x)
    /\ x.val.SSID = "work"

(***************************************************************************)
(* C6: an otherwise valid Wi-Fi entry lacking only required field F gets   *)
(* exactly the missing-field error naming F.                               *)
(***************************************************************************)
C6_MissingFieldNamed ==
    \A F \in RequiredWifiFields :
        (Ran("wifi") /\ LacksOnly(LastEntry, F)) => x = Err(MissingField(F))

C6_Witness ==
    /\ Ran("wifi")
    /\ LacksOnly(LastEntry, "UserName")
    /\ x = Err(<<"missing key: ", "UserName">>)

(***************************************************************************)
(* C7: with a root that is not a dictionary, or without an array under     *)
(* "PayloadContent", the run aborts: nothing is printed, no list is bound  *)
(* and no parser is called.                                                *)
(***************************************************************************)
C7_UnexpectedShapeIsFatal ==
    (~WellShaped /\ pc # "start") =>
        /\ pc = "panic"
        /\ out = <<>>
        /\ calls = <<>>
        /\ x = NoOutcome
        /\ wifis = <<>> /\ certs = <<>> /\ oks = <<>> /\ errs = <<>>

C7_Witness ==
    /\ pc = "panic"
    /\ plist.kind = "Dictionary"
    /\ Has(plist.dict, "PayloadContent")
    /\ plist.dict["PayloadContent"].kind # "Array"

(***************************************************************************)
(* C8: an otherwise valid Wi-Fi entry whose EAPClientConfiguration has no  *)
(* "TLSTrustedServerNames" parses, with an empty trusted-server list.      *)
(***************************************************************************)
C8_NoServerNamesIsEmpty ==
    (/\ Ran("wifi")
     /\ IsWifiEntry(LastEntry)
     /\ ~Has(EapOf(LastEntry), "TLSTrustedServerNames"))
    => (IsOk(x) /\ x.val.TLSTrustedServerNames = <<>>)

C8_Witness ==
    /\ Ran("wifi")
    /\ IsWifiEntry(LastEntry)
    /\ ~Has(EapOf(LastEntry), "TLSTrustedServerNames")
    /\ IsOk(x)

(***************************************************************************)
(* C9: partition_results files every outcome it has consumed in exactly    *)
(* one list: oks is the subsequence of the Ok values and errs that of the  *)
(* Err values, both in input order.                                        *)
(***************************************************************************)
Consumed ==
    [j \in 1..(i - 1) |->
        IF pc = "wifi" THEN MobileconfWifi_parse(contents[j])
        ELSE MobileconfTLSCert_parse(contents[j])]

C9_PartitionTotalOrdered ==
    pc \in {"wifi", "tls"} =>
        LET okIn == SelectSeq(Consumed, IsOk)
            errIn == SelectSeq(Consumed, IsErr)
        IN  /\ Len(oks) + Len(errs) = Len(Consumed)
            /\ oks = [j \in 1..Len(okIn) |-> okIn[j].val]
            /\ errs = [j \in 1..Len(errIn) |-> errIn[j].err]

C9_Witness ==
    /\ pc = "wifi"
    /\ Len(oks) = 2 /\ oks[1] # oks[2]
    /\ Len(errs) = 1

(***************************************************************************)
(* C10: the string arrays of a Wi-Fi record are the string elements of the *)
(* entry's arrays in their order; a non-string element is dropped and      *)
(* never fails an otherwise valid entry.                                   *)
(***************************************************************************)
C10_StringArraysFiltered ==
    (Ran("wifi") /\ IsWifiEntry(LastEntry)) =>
        /\ IsOk(x)
        /\ x.val.PayloadCertificateAnchorUUID
              = StringsOf(EapOf(LastEntry)["PayloadCertificateAnchorUUID"].arr)
        /\ Has(EapOf(LastEntry), "TLSTrustedServerNames") =>
              x.val.TLSTrustedServerNames
                 = StringsOf(EapOf(LastEntry)["TLSTrustedServerNames"].arr)

C10_Witness ==
    /\ Ran("wifi")
    /\ IsWifiEntry(LastEntry)
    /\ EapOf(LastEntry)["PayloadCertificateAnchorUUID"].arr = <<Integer(7), String("U2"), String("U1")>>
    /\ x.val.PayloadCertificateAnchorUUID = <<"U2", "U1">>

====
